---------------------------- MODULE Spec2Model ----------------------------
(***************************************************************************)
(* A model of github-archive-attachments-analyzer (src/src/main.rs).       *)
(*                                                                         *)
(* The program is one sequential pipeline: main calls process_attachments, *)
(* which checks its precondition, reads every attachments_*.json file,     *)
(* stats every listed attachment, sorts by size, builds one label per      *)
(* attachment that has a parent context, and returns the labels; main      *)
(* prints them.  The file system is the environment: which metadata files  *)
(* exist, what each holds, and which attachment files exist with what      *)
(* size.                                                                   *)
(*                                                                         *)
(* Strings that the code takes apart (paths, asset_url) are sequences of   *)
(* one-character strings; strings it only copies or concatenates           *)
(* (asset_name, the context identifiers, the labels) are TLA+ strings.     *)
(***************************************************************************)
EXTENDS Integers, Sequences, FiniteSets, TLC

(***************************************************************************)
(* Bounds of the model.                                                    *)
(***************************************************************************)
\* At most this many records over all the metadata files of one run.
MaxAttachments == 3
\* asset_url inputs of the path resolver are built from at most this many
\* segments of UrlSegments.
MaxSegments == 3

(***************************************************************************)
(* Option<T>: None is the empty sequence, Some(v) is <<v>>.                *)
(***************************************************************************)
None == <<>>
Some(v) == <<v>>
is_some(o) == o # <<>>
is_none(o) == o = <<>>
unwrap(o) == o[1]

(***************************************************************************)
(* Character strings.                                                      *)
(***************************************************************************)
FIRST_ATTACHMENTS_METADATA_FILENAME ==
    <<"a", "t", "t", "a", "c", "h", "m", "e", "n", "t", "s", "_",
      "0", "0", "0", "0", "0", "1", ".", "j", "s", "o", "n">>
ATTACHMENTS_DIRECTORY_NAME ==
    <<"a", "t", "t", "a", "c", "h", "m", "e", "n", "t", "s">>
\* The placeholder that process_attachments removes from asset_url.
TARBALL_ROOT ==
    <<"t", "a", "r", "b", "a", "l", "l", ":", "/", "/", "r", "o", "o", "t", "/">>
\* A second file that the glob attachments_*.json matches, after the first
\* in the glob's alphabetical order.
SECOND_ATTACHMENTS_METADATA_FILENAME ==
    <<"a", "t", "t", "a", "c", "h", "m", "e", "n", "t", "s", "_",
      "0", "0", "0", "0", "0", "2", ".", "j", "s", "o", "n">>

starts_with(s, prefix) ==
    /\ Len(prefix) <= Len(s)
    /\ SubSeq(s, 1, Len(prefix)) = prefix

\* str::replace(from, ""): scans left to right and removes every
\* non-overlapping occurrence of from; the scan never looks again at
\* text it has already passed.
RECURSIVE replace_with_empty(_, _)
replace_with_empty(s, from) ==
    IF s = <<>> THEN <<>>
    ELSE IF starts_with(s, from)
         THEN replace_with_empty(SubSeq(s, Len(from) + 1, Len(s)), from)
         ELSE <<Head(s)>> \o replace_with_empty(Tail(s), from)

\* Path::join: an absolute argument replaces the base; otherwise a
\* separator is added unless the base is empty or already ends in one.
path_join(base, p) ==
    IF starts_with(p, <<"/">>) THEN p
    ELSE IF base = <<>> THEN p
    ELSE IF base[Len(base)] = "/" THEN base \o p
    ELSE base \o <<"/">> \o p

\* Path::new(&working_directory).join(asset_url.replace("tarball://root/", ""))
relative_path(working_directory, asset_url) ==
    path_join(working_directory, replace_with_empty(asset_url, TARBALL_ROOT))

get_working_directory(working_directory_path) ==
    IF is_none(working_directory_path) THEN <<".">>
    ELSE unwrap(working_directory_path)


(***************************************************************************)
(* Size rendering: Byte::from_bytes(size).get_appropriate_unit(false)      *)
(* .format(1) at main.rs:123-125.  The byte_unit crate that implements the *)
(* two calls is not among the sources, so the rendering is modelled from   *)
(* section 4.4 of the specification: the largest unit in which the value   *)
(* is at least 1, rounded to one decimal place, 147,561 bytes being        *)
(* 144.1 KB (1 KB = 1024 bytes).  The tests at main.rs:170 and 185-186     *)
(* give the shape of the text: the value, a space, the unit.  The sizes of *)
(* the model stay below 2^31, so the units above GB are left out.  No      *)
(* product or sum below exceeds 2^31 - 1 for such sizes.                   *)
(***************************************************************************)
unit_names == <<"B", "KB", "MB", "GB">>

\* A variant with units of 1000.
RECURSIVE bytes_per_unit_decimal(_)
bytes_per_unit_decimal(tier) ==
    IF tier = 0 THEN 1 ELSE 1000 * bytes_per_unit_decimal(tier - 1)

\* The number of bytes in one B (tier 0), KB, MB, GB (tier 3).
RECURSIVE bytes_per_unit(_)
bytes_per_unit(tier) ==
    IF tier = 0 THEN 1 ELSE 1024 * bytes_per_unit(tier - 1)

\* The largest unit in which the value is at least 1 (bytes for a size
\* of 0), with the number of bytes in one unit.
get_appropriate_unit(bytes) ==
    LET tiers == {t \in 0..(Len(unit_names) - 1) : bytes >= bytes_per_unit(t)}
        tier == IF tiers = {} THEN 0
                ELSE CHOOSE t \in tiers : \A u \in tiers : u <= t
    IN  [unit |-> unit_names[tier + 1], divisor |-> bytes_per_unit(tier),
         bytes |-> bytes]

\* The binary exponent of bytes / divisor: the largest e with
\* divisor * 2^e <= bytes (bytes >= divisor).
RECURSIVE binary_exponent(_, _)
binary_exponent(bytes, divisor) ==
    IF bytes \div 2 >= divisor
    THEN 1 + binary_exponent(bytes \div 2, divisor)
    ELSE 0

\* The remainder r of (r0 * 2^n) modulo divisor, r0 < divisor, with the
\* lowest bit of the quotient (the carry of the last doubling).
RECURSIVE shifted_remainder(_, _, _, _)
shifted_remainder(r, carry, n, divisor) ==
    IF n = 0 THEN [r |-> r, carry |-> carry]
    ELSE IF r >= divisor - r
         THEN shifted_remainder(r - (divisor - r), 1, n - 1, divisor)
         ELSE shifted_remainder(r + r, 0, n - 1, divisor)

\* bytes as f64 / divisor as f64 is the quotient rounded to 53 significant
\* bits, ties to the even significand.  Which side of the exact quotient
\* the f64 lies on: 1 above, -1 below, 0 when the quotient is exact.
f64_quotient_side(bytes, divisor) ==
    LET s == shifted_remainder(bytes % divisor, 0,
                               52 - binary_exponent(bytes, divisor), divisor)
    IN  IF s.r = 0 THEN 0
        ELSE IF s.r > divisor - s.r THEN 1
        ELSE IF s.r < divisor - s.r THEN -1
        ELSE IF s.carry = 1 THEN 1 ELSE -1

\* (rem * 10) divided by divisor, rem < divisor: quotient digit q and
\* remainder r, by ten additions.
RECURSIVE times_ten_divided(_, _, _, _, _)
times_ten_divided(rem, divisor, n, q, r) ==
    IF n = 0 THEN [q |-> q, r |-> r]
    ELSE IF r >= divisor - rem
         THEN times_ten_divided(rem, divisor, n - 1, q + 1, r - (divisor - rem))
         ELSE times_ten_divided(rem, divisor, n - 1, q, r + rem)

\* The value rounded to one decimal place, in tenths.  The value is the
\* 64-bit floating-point quotient bytes as f64 / divisor as f64, printed
\* ("{:.1}") to the nearest tenth of its own binary value.  When the exact
\* quotient lies halfway between two tenths, the side the f64 fell on
\* decides; an f64 that is itself halfway goes to the even tenth.
rounded_tenths(bytes, divisor) ==
    LET t == times_ten_divided(bytes % divisor, divisor, 10, 0, 0)
        q == (bytes \div divisor) * 10 + t.q
        side == f64_quotient_side(bytes, divisor)
    IN  IF t.r > divisor - t.r THEN q + 1
        ELSE IF t.r < divisor - t.r THEN q
        ELSE IF side > 0 THEN q + 1
        ELSE IF side < 0 THEN q
        ELSE IF q % 2 = 1 THEN q + 1 ELSE q

\* format(1): the value with one decimal place, a space, the unit.
format_1(adjusted) ==
    LET t == rounded_tenths(adjusted.bytes, adjusted.divisor)
    IN  ToString(t \div 10) \o "." \o ToString(t % 10) \o " " \o adjusted.unit

size_as_string(size) == format_1(get_appropriate_unit(size))

(***************************************************************************)
(* The fold of main.rs:122-139.  The accumulator holds the messages and,   *)
(* beside them, the warnings the closure writes to standard error.         *)
(***************************************************************************)
label(asset_name, context, size) ==
    asset_name \o " (" \o context \o ") - " \o size_as_string(size)

\* A variant of the warning written with println!.
skip_warning_to_stdout(asset_name) ==
    <<"stdout", "Could not find issue, pull request or issue comment for attachment "
                  \o asset_name \o ". Skipping...">>

\* main.rs:135
skip_warning(asset_name) ==
    <<"stderr", "Could not find issue, pull request or issue comment for attachment "
                  \o asset_name \o ". Skipping...">>

\* A variant of the closure that tests issue before pull_request.
fold_step_issue_first(acc, attachment, size) ==
    IF is_some(attachment.issue)
    THEN [acc EXCEPT !.messages =
            Append(@, label(attachment.asset_name, unwrap(attachment.issue), size))]
    ELSE IF is_some(attachment.pull_request)
    THEN [acc EXCEPT !.messages =
            Append(@, label(attachment.asset_name, unwrap(attachment.pull_request), size))]
    ELSE IF is_some(attachment.issue_comment)
    THEN [acc EXCEPT !.messages =
            Append(@, label(attachment.asset_name, unwrap(attachment.issue_comment), size))]
    ELSE [acc EXCEPT !.console = Append(@, skip_warning(attachment.asset_name))]

\* The closure: one call per (attachment, size) pair.
fold_step(acc, attachment, size) ==
    IF is_some(attachment.pull_request)
    THEN [acc EXCEPT !.messages =
            Append(@, label(attachment.asset_name, unwrap(attachment.pull_request), size))]
    ELSE IF is_some(attachment.issue)
    THEN [acc EXCEPT !.messages =
            Append(@, label(attachment.asset_name, unwrap(attachment.issue), size))]
    ELSE IF is_some(attachment.issue_comment)
    THEN [acc EXCEPT !.messages =
            Append(@, label(attachment.asset_name, unwrap(attachment.issue_comment), size))]
    ELSE [acc EXCEPT !.console = Append(@, skip_warning(attachment.asset_name))]

\* A variant of the fold that stops at the first record it skips.
RECURSIVE fold_stop_at_skip(_, _)
fold_stop_at_skip(pairs, acc) ==
    IF pairs = <<>> THEN acc
    ELSE LET next == fold_step(acc, Head(pairs)[1], Head(pairs)[2])
         IN  IF Len(next.messages) = Len(acc.messages) THEN next
             ELSE fold_stop_at_skip(Tail(pairs), next)

\* attachments_by_size.iter().fold(Vec::new(), closure)
RECURSIVE fold(_, _)
fold(pairs, acc) ==
    IF pairs = <<>> THEN acc
    ELSE fold(Tail(pairs), fold_step(acc, Head(pairs)[1], Head(pairs)[2]))

(***************************************************************************)
(* Sorting, main.rs:117-118.                                               *)
(***************************************************************************)
Permutations_of(n) == Permutations(1..n)

\* sort_unstable_by_key on the size: every arrangement of the pairs with
\* non-decreasing sizes is a possible result, because the order of pairs
\* of equal size is unspecified.
sort_unstable_by_key(pairs) ==
    LET n == Len(pairs)
    IN  {t \in {[i \in 1..n |-> pairs[p[i]]] : p \in Permutations_of(n)} :
            \A i \in 1..(n - 1) : t[i][2] <= t[i + 1][2]}

\* A variant of reverse that leaves the sequence as it is.
reverse_missing(s) == s

reverse(s) == [i \in 1..Len(s) |-> s[Len(s) + 1 - i]]

(***************************************************************************)
(* The inputs of the model: the records a metadata file may hold and the   *)
(* files the archive may hold.                                             *)
(***************************************************************************)
\* struct Attachment, main.rs:10-22.  The fields type, url, user,
\* asset_content_type and created_at are deserialized and never read; the
\* model leaves them out.
Attachment(asset_name, pull_request, issue, issue_comment, asset_url) ==
    [asset_name |-> asset_name, pull_request |-> pull_request, issue |-> issue,
     issue_comment |-> issue_comment, asset_url |-> asset_url]

UrlA == TARBALL_ROOT \o <<"a">>
UrlB == TARBALL_ROOT \o <<"b">>

\* The records of the pipeline's inputs, over two files: one for each
\* branch of the fold's closure (the label carries the pull request, the
\* issue, the issue comment, or there is no label).
AttachmentInputs ==
    { Attachment("a.jpg", Some("pull/1"), None, None, UrlA),
      Attachment("b.png", None, Some("issues/2"), Some("comment/2"), UrlB),
      Attachment("c.gif", None, None, Some("comment/3"), UrlA),
      Attachment("d.txt", None, None, None, UrlB) }

\* File sizes in bytes: one rendered in B and one in KB.
Sizes == {500, 147561}

WorkingDirectoryInputs == {None, Some(<<"s", "r", "c">>)}

\* The names matching attachments_*.json that the working directory may
\* hold, in the order the glob yields them.
METADATA_FILENAMES ==
    <<FIRST_ATTACHMENTS_METADATA_FILENAME, SECOND_ATTACHMENTS_METADATA_FILENAME>>

GLOB_PATTERN ==
    <<"a", "t", "t", "a", "c", "h", "m", "e", "n", "t", "s", "_", "*",
      ".", "j", "s", "o", "n">>

SeqsUpTo(S, n) == UNION {[1..k -> S] : k \in 0..n}

VARIABLES
    provided_working_directory, \* the argument of process_attachments
    dir_listing,             \* indices of METADATA_FILENAMES present on disk
    attachments_dir_exists,  \* whether <working directory>/attachments exists
    disk,                    \* attachment path -> Some(size in bytes), or None
    pc,                      \* where the run is
    glob_rest,               \* the glob's paths not yet read
    attachments,             \* read_attachments_files' accumulator
    attachments_by_size,     \* the (attachment, size) pairs
    result,                  \* None until process_attachments returns
    console,                 \* what was written, in order: <<stream, text>>
    exit_status,             \* None until the process ends
    io_trace,                \* file system calls made so far, in order
    call_pc,                 \* a single call of one function: where it is,
    call_args,               \*   its arguments,
    call_ret                 \*   and what it returned

vars == <<provided_working_directory, dir_listing, attachments_dir_exists, disk,
          pc, glob_rest, attachments, attachments_by_size, result, console,
          exit_status, io_trace, call_pc, call_args, call_ret>>

call_vars == <<call_pc, call_args, call_ret>>
environment == <<provided_working_directory, dir_listing, attachments_dir_exists, disk>>

working_directory == get_working_directory(provided_working_directory)
first_attachments_metadata_path ==
    path_join(working_directory, FIRST_ATTACHMENTS_METADATA_FILENAME)
attachments_directory_path ==
    path_join(working_directory, ATTACHMENTS_DIRECTORY_NAME)

\* Path::exists on the two precondition paths and on an attachment's path.
first_exists == 1 \in dir_listing
path_exists(path) == path \in DOMAIN disk /\ is_some(disk[path])
\* fs::metadata(path).unwrap().len()
metadata_len(path) == unwrap(disk[path])

Ok(v) == [kind |-> "Ok", value |-> v]
Err(e) == [kind |-> "Err", value |-> e]

Init ==
    /\ provided_working_directory \in WorkingDirectoryInputs
    /\ dir_listing \in SUBSET (1..Len(METADATA_FILENAMES))
    /\ attachments_dir_exists \in BOOLEAN
    /\ disk \in [{relative_path(working_directory, u) : u \in {UrlA, UrlB}}
                    -> {None} \cup {Some(size) : size \in Sizes}]
    /\ pc = "start"
    /\ glob_rest = <<>>
    /\ attachments = <<>>
    /\ attachments_by_size = <<>>
    /\ result = None
    /\ console = <<>>
    /\ exit_status = None
    /\ io_trace = <<>>
    /\ call_pc = "none"
    /\ call_args = None
    /\ call_ret = None

(***************************************************************************)
(* process_attachments, main.rs:65-142.                                    *)
(***************************************************************************)
\* A variant of the precondition that fails only when both are missing.
precondition_fails_both(first, directory) == ~first /\ ~directory

\* main.rs:74
precondition_fails(first, directory) == ~first \/ ~directory

\* The message of main.rs:75, as the pieces of its format string and the
\* two paths; the model writes ' where the message has a backquote.
precondition_message ==
    <<"Could not find '", first_attachments_metadata_path, "' file and/or '",
      attachments_directory_path,
      "/' directory. This suggests that either (a) your archive contains no attachments or (b) you're not in a directory created when you extract a GitHub archive.">>

\* The exists() calls of main.rs:74; || does not evaluate its right side
\* when the first file is missing.
precondition_calls ==
    IF first_exists
    THEN << <<"exists", first_attachments_metadata_path>>,
            <<"exists", attachments_directory_path>> >>
    ELSE << <<"exists", first_attachments_metadata_path>> >>

\* main.rs:74-77
PreconditionFails ==
    /\ pc = "start"
    /\ precondition_fails(first_exists, attachments_dir_exists)
    /\ io_trace' = io_trace \o precondition_calls
    /\ result' = Some(Err(precondition_message))
    /\ pc' = "returned"
    /\ UNCHANGED <<environment, call_vars, glob_rest, attachments, attachments_by_size,
                   console, exit_status>>

\* The paths the glob of main.rs:37-43 yields, in alphabetical order.
RECURSIVE glob_from(_)
glob_from(i) ==
    IF i > Len(METADATA_FILENAMES) THEN <<>>
    ELSE (IF i \in dir_listing
          THEN <<path_join(working_directory, METADATA_FILENAMES[i])>>
          ELSE <<>>) \o glob_from(i + 1)

\* main.rs:74, 79 and the glob call of read_attachments_files
PreconditionHolds ==
    /\ pc = "start"
    /\ ~precondition_fails(first_exists, attachments_dir_exists)
    /\ io_trace' = io_trace \o precondition_calls
                     \o << <<"glob", path_join(working_directory, GLOB_PATTERN)>> >>
    /\ console' = Append(console,
          <<"stderr", "Reading attachments metadata files to find attachments...">>)
    /\ glob_rest' = glob_from(1)
    /\ pc' = "reading"
    /\ UNCHANGED <<environment, call_vars, attachments, attachments_by_size, result, exit_status>>

\* One turn of the loop of read_attachments_files on a file that parses.
ReadFileOk ==
    /\ pc = "reading"
    /\ glob_rest # <<>>
    /\ \E file_attachments \in SeqsUpTo(AttachmentInputs, MaxAttachments - Len(attachments)) :
          /\ attachments' = attachments \o file_attachments
          /\ io_trace' = Append(io_trace, <<"read_to_string", Head(glob_rest), "ok",
                                           Len(file_attachments)>>)
    /\ glob_rest' = Tail(glob_rest)
    /\ UNCHANGED <<environment, call_vars, pc, attachments_by_size, result, console, exit_status>>

\* read_to_string fails: the ? operator returns the error, which process_attachments
\* wraps (main.rs:28, 47, 83-86).
ReadFileIoError ==
    /\ pc = "reading"
    /\ glob_rest # <<>>
    /\ io_trace' = Append(io_trace, <<"read_to_string", Head(glob_rest), "io error">>)
    /\ result' = Some(Err(<<"Could not read attachments metadata files: ", "io error">>))
    /\ pc' = "returned"
    /\ UNCHANGED <<environment, call_vars, glob_rest, attachments, attachments_by_size,
                   console, exit_status>>

\* The file is read but is not a JSON array of Attachment: from_str
\* returns Err and unwrap panics (main.rs:29).
ReadFileParsePanic ==
    /\ pc = "reading"
    /\ glob_rest # <<>>
    /\ io_trace' = Append(io_trace, <<"read_to_string", Head(glob_rest), "not attachments">>)
    /\ console' = Append(console, <<"stderr", "panicked: called Result::unwrap() on an Err value">>)
    /\ pc' = "panicked"
    /\ exit_status' = Some("panic")
    /\ UNCHANGED <<environment, call_vars, glob_rest, attachments, attachments_by_size,
                   result>>

\* The glob cannot list the working directory: its only entry is an Err
\* and the loop panics (main.rs:50).
GlobErrorPanic ==
    /\ pc = "reading"
    /\ glob_rest # <<>>
    /\ glob_rest = glob_from(1)
    /\ console' = Append(console, <<"stderr", "panicked: Unexpected GlobError">>)
    /\ pc' = "panicked"
    /\ exit_status' = Some("panic")
    /\ UNCHANGED <<environment, call_vars, glob_rest, attachments, attachments_by_size,
                   result, io_trace>>

\* The loop ends; main.rs:89-90.
FilesRead ==
    /\ pc = "reading"
    /\ glob_rest = <<>>
    /\ console' = Append(console,
          <<"stderr", "Found " \o ToString(Len(attachments)) \o " attachment(s)">>)
    /\ pc' = "probing"
    /\ UNCHANGED <<environment, call_vars, glob_rest, attachments, attachments_by_size,
                   result, exit_status, io_trace>>

(***************************************************************************)
(* The map of main.rs:92-111.  The accumulator holds the pairs collected   *)
(* so far, what the closure wrote and which calls it made, and whether it  *)
(* panicked.                                                               *)
(***************************************************************************)
progress_line(index, count) ==
    <<"stderr", "Processing attachment " \o ToString(index + 1) \o "/" \o ToString(count)>>

\* A variant of the closure that does not look for the file of a record
\* without parent context, and gives it the size 0.
probe_step_labelled_only(acc, index, count, attachment) ==
    LET path == relative_path(working_directory, attachment.asset_url)
        told == [acc EXCEPT !.console = Append(@, progress_line(index, count))]
    IN  IF /\ is_none(attachment.pull_request)
           /\ is_none(attachment.issue)
           /\ is_none(attachment.issue_comment)
        THEN [told EXCEPT !.pairs = Append(@, <<attachment, 0>>)]
        ELSE IF ~path_exists(path)
        THEN [told EXCEPT !.io = Append(@, <<"exists", path>>), !.panicked = TRUE]
        ELSE [told EXCEPT !.io = @ \o << <<"exists", path>>, <<"metadata", path>> >>,
                          !.pairs = Append(@, <<attachment, metadata_len(path)>>)]

\* The closure: one call per attachment, index counted from 0.
probe_step(acc, index, count, attachment) ==
    LET path == relative_path(working_directory, attachment.asset_url)
        told == [acc EXCEPT !.console = Append(@, progress_line(index, count))]
    IN  IF ~path_exists(path)
        THEN [told EXCEPT !.io = Append(@, <<"exists", path>>), !.panicked = TRUE]
        ELSE [told EXCEPT !.io = @ \o << <<"exists", path>>, <<"metadata", path>> >>,
                          !.pairs = Append(@, <<attachment, metadata_len(path)>>)]

\* attachments.iter().enumerate().map(closure).collect(): stops at the
\* first panic.
RECURSIVE map_collect(_, _, _)
map_collect(list, index, acc) ==
    IF index >= Len(list) \/ acc.panicked THEN acc
    ELSE map_collect(list, index + 1,
                     probe_step(acc, index, Len(list), list[index + 1]))

probed ==
    map_collect(attachments, 0,
                [pairs |-> <<>>, console |-> <<>>, io |-> <<>>, panicked |-> FALSE])

\* main.rs:92-113, every listed file found.  The stat of a file that was
\* just seen to exist is taken to succeed: the archive does not change
\* during a run.
ProbeAll ==
    /\ pc = "probing"
    /\ ~probed.panicked
    /\ attachments_by_size' = probed.pairs
    /\ console' = console \o probed.console
                    \o << <<"stderr", "Sorting attachments by size...">> >>
    /\ io_trace' = io_trace \o probed.io
    /\ pc' = "sorting"
    /\ UNCHANGED <<environment, call_vars, glob_rest, attachments, result, exit_status>>

\* main.rs:104-106: a listed file is not on disk.
ProbePanic ==
    /\ pc = "probing"
    /\ probed.panicked
    /\ console' = console \o probed.console
                    \o << <<"stderr", <<"panicked: Could not find listed attachment file '",
                                        probed.io[Len(probed.io)][2],
                                        "'. Please make sure you're running this tool in the directory created when you extract a GitHub archive.">> >> >>
    /\ io_trace' = io_trace \o probed.io
    /\ pc' = "panicked"
    /\ exit_status' = Some("panic")
    /\ UNCHANGED <<environment, call_vars, glob_rest, attachments, attachments_by_size, result>>

\* main.rs:117-118
SortBySize ==
    /\ pc = "sorting"
    /\ \E sorted \in sort_unstable_by_key(attachments_by_size) :
          attachments_by_size' = reverse(sorted)
    /\ pc' = "folding"
    /\ UNCHANGED <<environment, call_vars, glob_rest, attachments, result, console,
                   exit_status, io_trace>>

folded == fold(attachments_by_size, [messages |-> <<>>, console |-> <<>>])

\* main.rs:122-141
FoldMessages ==
    /\ pc = "folding"
    /\ console' = console \o folded.console
    /\ result' = Some(Ok(folded.messages))
    /\ pc' = "returned"
    /\ UNCHANGED <<environment, call_vars, glob_rest, attachments, attachments_by_size,
                   exit_status, io_trace>>

(***************************************************************************)
(* main, main.rs:144-160.  main passes None; a run started with a          *)
(* directory is a call of process_attachments by another caller (the       *)
(* tests), and ends when it returns.                                       *)
(***************************************************************************)
println_all(messages) == [i \in 1..Len(messages) |-> <<"stdout", messages[i]>>]

\* main.rs:148-154
MainOk ==
    /\ pc = "returned"
    /\ is_none(provided_working_directory)
    /\ unwrap(result).kind = "Ok"
    /\ console' = console \o println_all(unwrap(result).value)
    /\ exit_status' = Some("OK")
    /\ pc' = "exited"
    /\ UNCHANGED <<environment, call_vars, glob_rest, attachments, attachments_by_size,
                   result, io_trace>>

\* main.rs:155-158
MainErr ==
    /\ pc = "returned"
    /\ is_none(provided_working_directory)
    /\ unwrap(result).kind = "Err"
    /\ console' = Append(console, <<"stderr", <<"Error: ", unwrap(result).value>> >>)
    /\ exit_status' = Some("DATAERR")
    /\ pc' = "exited"
    /\ UNCHANGED <<environment, call_vars, glob_rest, attachments, attachments_by_size,
                   result, io_trace>>

Next ==
    \/ PreconditionFails
    \/ PreconditionHolds
    \/ ReadFileOk
    \/ ReadFileIoError
    \/ ReadFileParsePanic
    \/ GlobErrorPanic
    \/ FilesRead
    \/ ProbeAll
    \/ ProbePanic
    \/ SortBySize
    \/ FoldMessages
    \/ MainOk
    \/ MainErr

Spec == Init /\ [][Next]_vars

(***************************************************************************)
(* Single calls.  The path resolution of main.rs:102 and the closure of    *)
(* the fold are functions of their arguments alone; each is also run on    *)
(* its own, over more arguments than the pipeline's inputs hold.           *)
(***************************************************************************)
pipeline_idle ==
    /\ provided_working_directory = None
    /\ dir_listing = {}
    /\ attachments_dir_exists = FALSE
    /\ disk = <<>>
    /\ pc = "none"
    /\ glob_rest = <<>>
    /\ attachments = <<>>
    /\ attachments_by_size = <<>>
    /\ result = None
    /\ console = <<>>
    /\ exit_status = None
    /\ io_trace = <<>>

pipeline_vars ==
    <<provided_working_directory, dir_listing, attachments_dir_exists, disk,
      pc, glob_rest, attachments, attachments_by_size, result, console,
      exit_status, io_trace>>

\* Pieces of asset_url values: the placeholder, a name, a separator, and
\* the two halves of the placeholder.
UrlSegments ==
    { TARBALL_ROOT,
      <<"a">>,
      <<"/">>,
      <<"t", "a", "r", "b", "a", "l", "l", ":", "/">>,
      <<"/", "r", "o", "o", "t", "/">> }

RECURSIVE concat(_)
concat(segments) ==
    IF segments = <<>> THEN <<>> ELSE Head(segments) \o concat(Tail(segments))

UrlInputs == {concat(segments) : segments \in SeqsUpTo(UrlSegments, MaxSegments)}

ResolveInit ==
    /\ pipeline_idle
    /\ call_pc = "resolve"
    /\ call_args \in [working_directory : {<<".">>, <<"s", "r", "c">>},
                      asset_url : UrlInputs]
    /\ call_ret = None

\* main.rs:102
Resolve ==
    /\ call_pc = "resolve"
    /\ call_ret' = Some(relative_path(call_args.working_directory, call_args.asset_url))
    /\ call_pc' = "resolved"
    /\ UNCHANGED <<pipeline_vars, call_args>>

SpecResolve == ResolveInit /\ [][Resolve]_vars

\* Every combination of populated and empty parent context fields.
FoldAttachmentInputs ==
    { Attachment(name, pull_request, issue, issue_comment, UrlA) :
        name \in {"photo.jpg", "b.png"},
        pull_request \in {None, Some("pull/337")},
        issue \in {None, Some("issues/12")},
        issue_comment \in {None, Some("issues/12#issuecomment-7")} }

\* Sizes at and on both sides of each unit's threshold and of a rounding
\* step, up to the largest size the model's integers hold.
FoldSizes ==
    {0, 1, 500, 1023, 1024, 1025, 1075, 1076, 73780, 147561,
     1048524, 1048525, 1048575, 1048576, 1048577, 5557453, 151102464,
     1073741823, 1073741824, 1073741825, 2147483647}

FoldAccInputs ==
    { [messages |-> <<>>, console |-> <<>>],
      [messages |-> <<"z.bin (pull/9) - 9.9 MB">>,
       console |-> <<skip_warning("y.bin")>>] }

FoldInit ==
    /\ pipeline_idle
    /\ call_pc = "fold_step"
    /\ call_args \in [acc : FoldAccInputs, attachment : FoldAttachmentInputs,
                      size : FoldSizes]
    /\ call_ret = None

\* One call of the closure of main.rs:122-139.
FoldStep ==
    /\ call_pc = "fold_step"
    /\ call_ret' = Some(fold_step(call_args.acc, call_args.attachment, call_args.size))
    /\ call_pc' = "folded"
    /\ UNCHANGED <<pipeline_vars, call_args>>

SpecFoldStep == FoldInit /\ [][FoldStep]_vars

(***************************************************************************)
(* Vocabulary of the properties.                                           *)
(***************************************************************************)
Returned == pc \in {"returned", "exited"}
ReturnedOk == Returned /\ unwrap(result).kind = "Ok"
ReturnedErr == Returned /\ unwrap(result).kind = "Err"
Messages == unwrap(result).value

HasContext(attachment) ==
    \/ is_some(attachment.pull_request)
    \/ is_some(attachment.issue)
    \/ is_some(attachment.issue_comment)

\* The identifier a label is to carry: pull request before issue before
\* issue comment.
ContextIdentifier(attachment) ==
    CASE is_some(attachment.pull_request) -> attachment.pull_request[1]
      [] is_none(attachment.pull_request) /\ is_some(attachment.issue) ->
            attachment.issue[1]
      [] is_none(attachment.pull_request) /\ is_none(attachment.issue) ->
            attachment.issue_comment[1]

ExpectedLabel(pair) ==
    pair[1].asset_name \o " (" \o ContextIdentifier(pair[1]) \o ") - "
        \o size_as_string(pair[2])

PairHasContext(pair) == HasContext(pair[1])
Retained(pairs) == SelectSeq(pairs, PairHasContext)
LabelsOf(pairs) == [i \in 1..Len(Retained(pairs)) |-> ExpectedLabel(Retained(pairs)[i])]

PathOf(attachment) == relative_path(working_directory, attachment.asset_url)
AllFilesPresent == \A i \in 1..Len(attachments) : path_exists(PathOf(attachments[i]))
\* The merged records, each with the size of its file, in discovery order.
DiscoveryPairs ==
    [i \in 1..Len(attachments) |-> <<attachments[i], disk[PathOf(attachments[i])][1]>>]

Occurrences(s, x) == Cardinality({i \in 1..Len(s) : s[i] = x})
IsPermutationOf(s, t) ==
    /\ Len(s) = Len(t)
    /\ \A i \in 1..Len(s) : Occurrences(s, s[i]) = Occurrences(t, s[i])

ReadsOf(outcome) ==
    {i \in 1..Len(io_trace) :
        io_trace[i][1] = "read_to_string" /\ io_trace[i][3] = outcome}

StdoutLines == SelectSeq(console, LAMBDA line : line[1] = "stdout")
StderrLines == SelectSeq(console, LAMBDA line : line[1] = "stderr")

(***************************************************************************)
(* C1.  When process_attachments returns labels, every matching metadata   *)
(* file was read, the ranked pairs are the records of all of them taken    *)
(* together, each with the size of its file, and the sizes behind the      *)
(* returned labels never increase from one label to the next: the largest  *)
(* attachment overall comes first, whichever file listed it.               *)
(***************************************************************************)
C1_RankedAcrossFiles ==
    ReturnedOk =>
        /\ Cardinality(ReadsOf("ok")) = Cardinality(dir_listing)
        /\ IsPermutationOf(attachments_by_size, DiscoveryPairs)
        /\ Messages = LabelsOf(attachments_by_size)
        /\ \A i, j \in 1..Len(Retained(attachments_by_size)) :
              i < j => Retained(attachments_by_size)[i][2]
                         >= Retained(attachments_by_size)[j][2]

\* Two files were read, the first listed one record and the second two,
\* and the largest attachment, listed by the second file, is the first
\* label.
C1_Witness ==
    /\ ReturnedOk
    /\ Cardinality(ReadsOf("ok")) = 2
    /\ io_trace[4][4] = 1
    /\ io_trace[5][4] = 2
    /\ Len(Messages) = 3
    /\ attachments_by_size[1][1] = attachments[3]
    /\ attachments_by_size[1][1] # attachments[1]
    /\ attachments_by_size[1][2] > attachments_by_size[2][2]
    /\ Messages[1] = ExpectedLabel(attachments_by_size[1])

(***************************************************************************)
(* C2.  Sort stability: of two labelled records of equal size, the one     *)
(* discovered earlier comes first in the returned list, that is, the       *)
(* returned list is the list of labels of the stable descending sort of    *)
(* the records in discovery order.                                         *)
(***************************************************************************)
StableDescending(pairs) ==
    CHOOSE t \in {[i \in 1..Len(pairs) |-> pairs[p[i]]] : p \in
                    {q \in Permutations_of(Len(pairs)) :
                        \A i, j \in 1..Len(pairs) :
                            i < j => \/ pairs[q[i]][2] > pairs[q[j]][2]
                                     \/ /\ pairs[q[i]][2] = pairs[q[j]][2]
                                        /\ q[i] < q[j]}} : TRUE

C2_StableOrder ==
    ReturnedOk => Messages = LabelsOf(StableDescending(DiscoveryPairs))

(***************************************************************************)
(* C3.  The returned labels are, one for one and in the same order, the    *)
(* size-sorted records that have a pull request, an issue or an issue      *)
(* comment.  A record with none of the three gets no label, only a         *)
(* warning naming its asset, and does not end the run: once every listed   *)
(* file has been found, the run returns labels.                            *)
(***************************************************************************)
WithContext == {i \in 1..Len(attachments) : HasContext(attachments[i])}
WithoutContext == (1..Len(attachments)) \ WithContext

C3_SkipsOnlyRecordsWithoutContext ==
    /\ ReturnedOk =>
          /\ Len(Messages) = Cardinality(WithContext)
          /\ Messages = LabelsOf(attachments_by_size)
          /\ \A i \in WithoutContext :
                \E k \in 1..Len(console) :
                    console[k] = skip_warning(attachments[i].asset_name)
          /\ Cardinality({k \in 1..Len(console) :
                            \E i \in WithoutContext :
                                console[k] = skip_warning(attachments[i].asset_name)})
                = Cardinality(WithoutContext)
    /\ attachments_by_size # <<>> =>
          /\ pc # "panicked"
          /\ Returned => ReturnedOk

\* A record without context was sorted between two records with context:
\* both are labelled, in their sorted order, and the run ended well.
C3_Witness ==
    /\ pc = "exited"
    /\ exit_status = Some("OK")
    /\ Len(attachments_by_size) = 3
    /\ ~HasContext(attachments_by_size[2][1])
    /\ attachments_by_size[1][2] > attachments_by_size[2][2]
    /\ attachments_by_size[2][2] = attachments_by_size[3][2]
    /\ Messages = <<ExpectedLabel(attachments_by_size[1]),
                    ExpectedLabel(attachments_by_size[3])>>

(***************************************************************************)
(* C4.  process_attachments returns the precondition error exactly when    *)
(* attachments_000001.json or the attachments directory is missing from    *)
(* the working directory.  The message names both paths as the working     *)
(* directory gives them, and by then no metadata file has been globbed or  *)
(* read, no attachment has been looked for, and nothing is returned or     *)
(* printed as a label.                                                     *)
(***************************************************************************)
IsPreconditionError ==
    /\ result # None
    /\ unwrap(result).kind = "Err"
    /\ Len(unwrap(result).value) = 5
    /\ unwrap(result).value[1] = precondition_message[1]

ExpectedFirstPath ==
    IF provided_working_directory = None
    THEN <<".", "/">> \o FIRST_ATTACHMENTS_METADATA_FILENAME
    ELSE <<"s", "r", "c", "/">> \o FIRST_ATTACHMENTS_METADATA_FILENAME
ExpectedDirectoryPath ==
    IF provided_working_directory = None
    THEN <<".", "/">> \o ATTACHMENTS_DIRECTORY_NAME
    ELSE <<"s", "r", "c", "/">> \o ATTACHMENTS_DIRECTORY_NAME

C4_PreconditionError ==
    /\ pc # "start" =>
          (IsPreconditionError <=> (1 \notin dir_listing \/ ~attachments_dir_exists))
    /\ IsPreconditionError =>
          /\ unwrap(result).value[2] = ExpectedFirstPath
          /\ unwrap(result).value[3] = precondition_message[3]
          /\ unwrap(result).value[5] = precondition_message[5]
          /\ unwrap(result).value[4] = ExpectedDirectoryPath
          /\ \A i \in 1..Len(io_trace) : io_trace[i][1] = "exists"
          /\ Len(io_trace) <= 2
          /\ attachments = <<>>
          /\ attachments_by_size = <<>>
          /\ StdoutLines = <<>>

\* The metadata file is there and only the directory is missing.
C4_Witness ==
    /\ pc = "exited"
    /\ IsPreconditionError
    /\ 1 \in dir_listing
    /\ ~attachments_dir_exists
    /\ exit_status = Some("DATAERR")

(***************************************************************************)
(* C5.  When a discovered metadata file does not parse into attachment     *)
(* records, the run ends with an error returned by process_attachments,    *)
(* not with a panic.                                                       *)
(***************************************************************************)
C5_ParseFailureIsReturned ==
    ReadsOf("not attachments") # {} =>
        /\ pc # "panicked"
        /\ Returned
        /\ unwrap(result).kind = "Err"
        /\ pc = "exited" => exit_status = Some("DATAERR")

(***************************************************************************)
(* C6.  Once the metadata files are merged, a record whose file is not on  *)
(* disk ends the run with a panic: nothing is returned, the pairs are      *)
(* never sorted, no label is made or printed.  It does not matter whether  *)
(* the record has a parent context.                                        *)
(***************************************************************************)
Merged ==
    \E k \in 1..Len(console) :
        console[k] = <<"stderr", "Found " \o ToString(Len(attachments)) \o " attachment(s)">>

C6_MissingFilePanics ==
    (Merged /\ pc # "probing" /\ ~AllFilesPresent) =>
        /\ pc = "panicked"
        /\ exit_status = Some("panic")
        /\ result = None
        /\ attachments_by_size = <<>>
        /\ StdoutLines = <<>>
        /\ \A k \in 1..Len(console) :
              console[k] # <<"stderr", "Sorting attachments by size...">>

\* The only missing file is that of a record without context, listed
\* after a record whose file is there.
C6_Witness ==
    /\ pc = "panicked"
    /\ Merged
    /\ Len(attachments) = 2
    /\ HasContext(attachments[1])
    /\ path_exists(PathOf(attachments[1]))
    /\ ~HasContext(attachments[2])
    /\ ~path_exists(PathOf(attachments[2]))

(***************************************************************************)
(* C9.  Every line written to standard error is written before the first   *)
(* line written to standard output; standard output holds the returned     *)
(* labels, in order, once main has printed them, and nothing otherwise.    *)
(***************************************************************************)
C9_DiagnosticsBeforeResults ==
    /\ \A i, j \in 1..Len(console) :
          (console[i][1] = "stdout" /\ console[j][1] = "stderr") => j < i
    /\ (pc = "exited" /\ exit_status = Some("OK")) =>
          StdoutLines = [i \in 1..Len(Messages) |-> <<"stdout", Messages[i]>>]
    /\ ~(pc = "exited" /\ exit_status = Some("OK")) => StdoutLines = <<>>

\* main printed two labels after a run that warned about a skipped record.
C9_Witness ==
    /\ pc = "exited"
    /\ exit_status = Some("OK")
    /\ Len(StdoutLines) = 2
    /\ WithoutContext # {}
    /\ console[Len(console)][1] = "stdout"
    /\ console[Len(console) - 2] = skip_warning(attachments_by_size[1][1].asset_name)

(***************************************************************************)
(* Vocabulary of the properties of a single call of the fold's closure.    *)
(***************************************************************************)
Folded == call_pc = "folded"
FoldedAttachment == call_args.attachment
NewMessages ==
    SubSeq(call_ret[1].messages, Len(call_args.acc.messages) + 1,
           Len(call_ret[1].messages))

(***************************************************************************)
(* C7.  The size part of every label is the human-scaled rendering: the    *)
(* largest unit in which the value is at least 1, rounded to one decimal   *)
(* place.  An attachment of exactly 147,561 bytes with a pull request and  *)
(* the asset name photo.jpg yields the single label                        *)
(* photo.jpg (<pull-request-id>) - 144.1 KB, and every label of a run is   *)
(* rendered in the same way.  The expected text is written out for each    *)
(* size; a size of 0 has no unit in which the value is at least 1 and is   *)
(* not covered.                                                            *)
(***************************************************************************)
HumanScaledRendering ==
    [size \in FoldSizes |->
        CASE size = 0 -> "0.0 B"
          [] size = 1 -> "1.0 B"
          [] size = 500 -> "500.0 B"
          [] size = 1023 -> "1023.0 B"
          [] size = 1024 -> "1.0 KB"
          [] size = 1025 -> "1.0 KB"
          [] size = 1075 -> "1.0 KB"
          [] size = 1076 -> "1.1 KB"
          [] size = 73780 -> "72.1 KB"
          [] size = 147561 -> "144.1 KB"
          [] size = 1048524 -> "1023.9 KB"
          [] size = 1048525 -> "1024.0 KB"
          [] size = 1048575 -> "1024.0 KB"
          [] size = 1048576 -> "1.0 MB"
          [] size = 1048577 -> "1.0 MB"
          [] size = 5557453 -> "5.3 MB"
          [] size = 151102464 -> "144.1 MB"
          [] size = 1073741823 -> "1024.0 MB"
          [] size = 1073741824 -> "1.0 GB"
          [] size = 1073741825 -> "1.0 GB"
          [] size = 2147483647 -> "2.0 GB"]

C10_OneLabelByPriority ==
    Folded =>
        /\ SubSeq(call_ret[1].messages, 1, Len(call_args.acc.messages))
              = call_args.acc.messages
        /\ Len(NewMessages) = (IF HasContext(FoldedAttachment) THEN 1 ELSE 0)
        /\ is_some(FoldedAttachment.pull_request) =>
              NewMessages = <<label(FoldedAttachment.asset_name,
                                    FoldedAttachment.pull_request[1], call_args.size)>>
        /\ (is_none(FoldedAttachment.pull_request) /\ is_some(FoldedAttachment.issue)) =>
              NewMessages = <<label(FoldedAttachment.asset_name,
                                    FoldedAttachment.issue[1], call_args.size)>>
        /\ (/\ is_none(FoldedAttachment.pull_request)
            /\ is_none(FoldedAttachment.issue)
            /\ is_some(FoldedAttachment.issue_comment)) =>
              NewMessages = <<label(FoldedAttachment.asset_name,
                                    FoldedAttachment.issue_comment[1], call_args.size)>>

\* All three fields are populated and the one label carries the pull
\* request.
C10_Witness ==
    /\ Folded
    /\ is_some(FoldedAttachment.pull_request)
    /\ is_some(FoldedAttachment.issue)
    /\ is_some(FoldedAttachment.issue_comment)
    /\ call_args.size = 5557453
    /\ NewMessages = <<"b.png (pull/337) - 5.3 MB">>

(***************************************************************************)
(* C8.  The resolved path is the working directory joined with asset_url   *)
(* less its leading tarball://root/, if it has one; an occurrence of the   *)
(* placeholder further on in asset_url stays in the path.                  *)
(***************************************************************************)
StripLeadingPlaceholder(url) ==
    IF starts_with(url, TARBALL_ROOT)
    THEN SubSeq(url, Len(TARBALL_ROOT) + 1, Len(url))
    ELSE url

C8_StripsLeadingPrefixOnly ==
    call_pc = "resolved" =>
        call_ret[1] = path_join(call_args.working_directory,
                                StripLeadingPlaceholder(call_args.asset_url))

=============================================================================
